---- MODULE Spec2Model ----
(***************************************************************************)
(* Model of the dgraph-conn driver: the Transaction state machine of       *)
(* src/src/transaction.rs bound to the deadpool-managed connection pool of *)
(* src/src/pool.rs, with the Client facade of src/src/client.rs as the     *)
(* other holder of pooled connections.                                     *)
(*                                                                         *)
(* An async method is cut at its await points: the part up to the RPC is   *)
(* one step, the arrival of the reply and the rest of the method another.  *)
(* wire and coaLog are what a mock server observes of the transaction.     *)
(***************************************************************************)
EXTENDS Integers, Sequences, FiniteSets, TLC

\* ---- bounds of the model ------------------------------------------------
MaxTs == 2
MaxPoolSize == 2
MaxConnId == MaxPoolSize + 1

\* ---- values the server and the caller can supply ------------------------
Keys == {"a", "b"}
Preds == {"p"}
Hashes == {"h1"}
NoConn == 0

VARIABLES
    \* the deadpool pool of pool.rs
    pool_size,   \* PoolConfig::new(pool_size)
    slots,       \* idle connections, oldest first
    nextId,      \* identity of the next connection Manager::create builds
    unhealthy,   \* connections whose recycle (CheckVersion) failed
    \* the Client handed out by get / get_readonly / get_best_effort
    client,
    \* the Transaction, wherever its state lives
    txn,         \* the fields of struct Transaction
    life,        \* "none" | "caller" | "task" (moved into the spawned task) | "dead"
    pc,          \* "idle" | "query_wait" | "coa_wait" | "spawned"
    op,          \* the method in progress or last run
    cur,         \* the request of the do_request in flight
    result,      \* what the last completed method returned
    \* observation of the run
    wire,        \* the RPC the last step sent on the transaction's connection
    coaLog,      \* the CommitOrAbort RPCs sent on the transaction's connection
    hist,        \* what has happened so far in the run
    creq,        \* the last request the Client built and sent
    mc           \* the contexts given to merge_context, in order

vars == <<pool_size, slots, nextId, unhealthy, client, txn, life, pc, op, cur,
          result, wire, coaLog, hist, creq, mc>>

\* ---- helpers ------------------------------------------------------------
SeqToSet(s) == {s[i] : i \in 1..Len(s)}

\* every order in which a HashSet can be iterated
Orders(S) == {s \in [1..Cardinality(S) -> S] : \A i, j \in 1..Cardinality(S) : s[i] = s[j] => i = j}

\* ---- error.rs -----------------------------------------------------------
Ok == [kind |-> "Ok", msg |-> ""]
InvalidArgument(m) == [kind |-> "InvalidArgument", msg |-> m]
Status(m) == [kind |-> "Status", msg |-> m]
\* the variant Transaction(String) of DgraphError, which no code constructs
TransactionError(m) == [kind |-> "Transaction", msg |-> m]
NoResult == [kind |-> "None", msg |-> ""]

\* ---- api: TxnContext, Request --------------------------------------------
TxnContextDefault == [start_ts |-> 0, hash |-> "", aborted |-> FALSE, keys |-> <<>>, preds |-> <<>>]

\* the requests the do_request-style methods build, by what do_request reads of them
\* query, query_with_vars (do_query): no mutations, commit_now left at its default
QueryRequest == [mutating |-> FALSE, commit_now |-> FALSE]
\* mutate, upsert, upsert_with_vars: the caller's mutations, commit_now at its default
MutateRequest == [mutating |-> TRUE, commit_now |-> FALSE]
\* do_request is public: any request can be passed to it
RawRequests == [mutating : BOOLEAN, commit_now : BOOLEAN]
Requests == {QueryRequest, MutateRequest} \cup RawRequests
NoRequest == [mutating |-> FALSE, commit_now |-> FALSE]

\* what goes over the transaction's connection
NoRpc == [rpc |-> "none"]
QueryRpc(req) == [rpc |-> "Query", req |-> req]
CommitOrAbortRpc(ctx) == [rpc |-> "CommitOrAbort", ctx |-> ctx]

\* the contexts a Response can carry (keys and preds by the strings they list)
ResponseContexts == [start_ts : 0..MaxTs, hash : Hashes, keys : SUBSET Keys, preds : SUBSET Preds]

\* ---- transaction.rs: struct Transaction ----------------------------------
TransactionDefault ==
    [keys |-> {}, preds |-> {}, ctx |-> TxnContextDefault, finished |-> FALSE,
     mutated |-> FALSE, dropped |-> FALSE, conn |-> NoConn]

TransactionNew(conn) == [TransactionDefault EXCEPT !.conn = conn]

\* merge_context adopting the echoed start_ts whatever the local one is
merge_context_adopt(t, ctx) ==
    [txn |-> [t EXCEPT !.ctx.hash = ctx.hash, !.ctx.start_ts = ctx.start_ts,
                       !.keys = @ \cup ctx.keys, !.preds = @ \cup ctx.preds],
     res |-> Ok]

\* merge_context inserting the keys and preds ahead of the start_ts check
merge_context_insert_first(t, ctx) ==
    LET t1 == [t EXCEPT !.ctx.hash = ctx.hash,
                        !.keys = @ \cup ctx.keys, !.preds = @ \cup ctx.preds]
        t2 == IF t1.ctx.start_ts = 0 THEN [t1 EXCEPT !.ctx.start_ts = ctx.start_ts] ELSE t1
    IN  IF t2.ctx.start_ts # ctx.start_ts
        THEN [txn |-> t2, res |-> InvalidArgument("Transaction start_ts mismatch")]
        ELSE [txn |-> t2, res |-> Ok]

\* merge_context keeping only the keys and preds of the last context
merge_context_replace(t, ctx) ==
    LET t1 == [t EXCEPT !.ctx.hash = ctx.hash]
        t2 == IF t1.ctx.start_ts = 0 THEN [t1 EXCEPT !.ctx.start_ts = ctx.start_ts] ELSE t1
    IN  IF t2.ctx.start_ts # ctx.start_ts
        THEN [txn |-> t2, res |-> InvalidArgument("Transaction start_ts mismatch")]
        ELSE [txn |-> [t2 EXCEPT !.keys = ctx.keys, !.preds = ctx.preds], res |-> Ok]

\* fn merge_context(&mut self, ctx: TxnContext) -> Result<()>
merge_context(t, ctx) ==
    LET t1 == [t EXCEPT !.ctx.hash = ctx.hash]
        t2 == IF t1.ctx.start_ts = 0 THEN [t1 EXCEPT !.ctx.start_ts = ctx.start_ts] ELSE t1
    IN  IF t2.ctx.start_ts # ctx.start_ts
        THEN [txn |-> t2, res |-> InvalidArgument("Transaction start_ts mismatch")]
        ELSE [txn |-> [t2 EXCEPT !.keys = @ \cup ctx.keys, !.preds = @ \cup ctx.preds],
              res |-> Ok]

\* do_request without the check of finished
do_request_send_unchecked(t, req) ==
    LET t1 == IF req.mutating THEN [t EXCEPT !.mutated = TRUE] ELSE t
    IN  [txn |-> [t1 EXCEPT !.ctx.hash = ""], rpc |-> TRUE,
         sent |-> [mutating |-> req.mutating, commit_now |-> req.commit_now,
                   start_ts |-> t1.ctx.start_ts, hash |-> t1.ctx.hash],
         res |-> NoResult]

\* do_request that does not record the mutations of its request
do_request_send_unrecorded(t, req) ==
    IF t.finished
    THEN [txn |-> t, rpc |-> FALSE, sent |-> TxnContextDefault,
          res |-> InvalidArgument("Transaction already finished")]
    ELSE [txn |-> [t EXCEPT !.ctx.hash = ""], rpc |-> TRUE,
          sent |-> [mutating |-> req.mutating, commit_now |-> req.commit_now,
                    start_ts |-> t.ctx.start_ts, hash |-> t.ctx.hash],
          res |-> NoResult]

\* do_request up to the await of the Query RPC (lines 45-57)
do_request_send(t, req) ==
    IF t.finished
    THEN [txn |-> t, rpc |-> FALSE, sent |-> TxnContextDefault,
          res |-> InvalidArgument("Transaction already finished")]
    ELSE LET t1 == IF req.mutating THEN [t EXCEPT !.mutated = TRUE] ELSE t
         IN  [txn |-> [t1 EXCEPT !.ctx.hash = ""], rpc |-> TRUE,
              sent |-> [mutating |-> req.mutating, commit_now |-> req.commit_now,
                        start_ts |-> t1.ctx.start_ts, hash |-> t1.ctx.hash],
              res |-> NoResult]

\* the replies the Query RPC can produce: a Status error, a Response without
\* a context, a Response with one
QueryReplies ==
    {[kind |-> "err", ctx |-> TxnContextDefault], [kind |-> "noctx", ctx |-> TxnContextDefault]}
        \cup {[kind |-> "ctx", ctx |-> c] : c \in ResponseContexts}

\* do_request ignoring commit_now after the reply
do_request_reply_nofinish(t, req, reply) ==
    IF reply.kind = "err"
    THEN [txn |-> t, res |-> Status("query")]
    ELSE IF reply.kind = "ctx" THEN merge_context(t, reply.ctx)
         ELSE [txn |-> t, res |-> Ok]

\* do_request from the reply of the Query RPC on (lines 57-66)
do_request_reply(t, req, reply) ==
    IF reply.kind = "err"
    THEN [txn |-> t, res |-> Status("query")]
    ELSE LET t1 == IF req.commit_now THEN [t EXCEPT !.finished = TRUE] ELSE t
         IN  IF reply.kind = "ctx" THEN merge_context(t1, reply.ctx)
             ELSE [txn |-> t1, res |-> Ok]

\* commit_or_abort that never marks the transaction finished
commit_or_abort_send_nomark(t) ==
    IF t.finished
    THEN {[txn |-> t, rpc |-> FALSE, sent |-> TxnContextDefault, res |-> Ok]}
    ELSE IF ~t.mutated
         THEN {[txn |-> t, rpc |-> FALSE, sent |-> TxnContextDefault, res |-> Ok]}
         ELSE {[txn |-> [t EXCEPT !.keys = {}, !.preds = {}, !.ctx = TxnContextDefault],
                rpc |-> TRUE,
                sent |-> [t.ctx EXCEPT !.keys = @ \o ks, !.preds = @ \o ps],
                res |-> NoResult] : ks \in Orders(t.keys), ps \in Orders(t.preds)}

\* commit_or_abort without the early return for a never-mutated transaction
commit_or_abort_send_always(t) ==
    IF t.finished
    THEN {[txn |-> t, rpc |-> FALSE, sent |-> TxnContextDefault, res |-> Ok]}
    ELSE {[txn |-> [t EXCEPT !.finished = TRUE, !.keys = {}, !.preds = {},
                             !.ctx = TxnContextDefault],
           rpc |-> TRUE,
           sent |-> [t.ctx EXCEPT !.keys = @ \o ks, !.preds = @ \o ps],
           res |-> NoResult] : ks \in Orders(t.keys), ps \in Orders(t.preds)}

\* commit_or_abort without the early return for a finished transaction
commit_or_abort_send_unguarded(t) ==
    LET t1 == [t EXCEPT !.finished = TRUE]
    IN  IF ~t1.mutated
        THEN {[txn |-> t1, rpc |-> FALSE, sent |-> TxnContextDefault, res |-> Ok]}
        ELSE {[txn |-> [t1 EXCEPT !.keys = {}, !.preds = {}, !.ctx = TxnContextDefault],
               rpc |-> TRUE,
               sent |-> [t1.ctx EXCEPT !.keys = @ \o ks, !.preds = @ \o ps],
               res |-> NoResult] : ks \in Orders(t1.keys), ps \in Orders(t1.preds)}

\* commit_or_abort up to the await of the CommitOrAbort RPC (lines 168-184):
\* one outcome for each order in which the two HashSets are drained
commit_or_abort_send(t) ==
    IF t.finished
    THEN {[txn |-> t, rpc |-> FALSE, sent |-> TxnContextDefault, res |-> Ok]}
    ELSE LET t1 == [t EXCEPT !.finished = TRUE]
         IN  IF ~t1.mutated
             THEN {[txn |-> t1, rpc |-> FALSE, sent |-> TxnContextDefault, res |-> Ok]}
             ELSE {[txn |-> [t1 EXCEPT !.keys = {}, !.preds = {}, !.ctx = TxnContextDefault],
                    rpc |-> TRUE,
                    sent |-> [t1.ctx EXCEPT !.keys = @ \o ks, !.preds = @ \o ps],
                    res |-> NoResult] : ks \in Orders(t1.keys), ps \in Orders(t1.preds)}

\* commit_or_abort from the reply of the CommitOrAbort RPC on (lines 185-186)
commit_or_abort_reply(ok) == IF ok THEN Ok ELSE Status("commit_or_abort")

\* pub async fn discard(&mut self), up to the await
discard_send(t) == commit_or_abort_send([t EXCEPT !.ctx.aborted = TRUE])

\* pub async fn commit(mut self), up to the await
commit_send(t) ==
    IF t.finished
    THEN {[txn |-> t, rpc |-> FALSE, sent |-> TxnContextDefault,
           res |-> InvalidArgument("Transaction already finished")]}
    ELSE commit_or_abort_send(t)

\* a Drop that spawns no abort
drop_no_abort(t) == [spawn |-> FALSE, self |-> t, this |-> t]

\* a Drop that hands the task a copy and leaves the connection in self as well
drop_noswap(t) ==
    IF ~t.dropped /\ ~t.finished /\ t.mutated
    THEN [spawn |-> TRUE, self |-> t, this |-> [t EXCEPT !.dropped = TRUE]]
    ELSE [spawn |-> FALSE, self |-> t, this |-> t]

\* impl Drop for Transaction: self after drop() returned, and the value moved
\* into the spawned task when there is one
drop(t) ==
    IF ~t.dropped /\ ~t.finished /\ t.mutated
    THEN [spawn |-> TRUE, self |-> TransactionDefault, this |-> [t EXCEPT !.dropped = TRUE]]
    ELSE [spawn |-> FALSE, self |-> t, this |-> t]

\* ---- client.rs: struct Client ---------------------------------------------
NoClient == [conn |-> NoConn, read_only |-> FALSE, best_effort |-> FALSE]
ClientNew(inner, read_only, best_effort) ==
    [conn |-> inner, read_only |-> read_only, best_effort |-> best_effort]

\* the requests the Client's methods build, by the fields they set
ClientApis == {"query", "query_with_vars", "mutate", "upsert", "upsert_with_vars"}
NoClientRequest ==
    [api |-> "none", mutating |-> FALSE, commit_now |-> FALSE, read_only |-> FALSE,
     best_effort |-> FALSE, state |-> "none"]

\* the DgraphRequest each method of Client builds: query and query_with_vars
\* set the Client's flags, mutate, upsert and upsert_with_vars leave them at
\* their defaults
client_request(c, api) ==
    IF api \in {"query", "query_with_vars"}
    THEN [api |-> api, mutating |-> FALSE, commit_now |-> TRUE,
          read_only |-> c.read_only, best_effort |-> c.best_effort, state |-> "pending"]
    ELSE [api |-> api, mutating |-> TRUE, commit_now |-> TRUE,
          read_only |-> FALSE, best_effort |-> FALSE, state |-> "pending"]

\* ---- pool.rs: the deadpool pool behind DgraphPool -------------------------
\* connections checked out of the pool
Outstanding ==
    (IF client.conn # NoConn THEN 1 ELSE 0) + (IF txn.conn # NoConn THEN 1 ELSE 0)

\* a recycle that returns Ok(()) although check_version failed
RECURSIVE PoolGetRecycleSwallows(_, _)
PoolGetRecycleSwallows(sl, bad) ==
    IF sl = <<>>
    THEN {[conn |-> nextId, slots |-> <<>>, created |-> TRUE, bad |-> bad]}
    ELSE {[conn |-> Head(sl), slots |-> Tail(sl), created |-> FALSE, bad |-> bad],
          [conn |-> Head(sl), slots |-> Tail(sl), created |-> FALSE,
           bad |-> bad \cup {Head(sl)}]}

\* Pool::get with a free permit: idle connections are recycled oldest first,
\* one whose recycle (check_version) fails is discarded and the next is tried,
\* and Manager::create builds a new one when none is left
RECURSIVE PoolGet(_, _)
PoolGet(sl, bad) ==
    IF sl = <<>>
    THEN {[conn |-> nextId, slots |-> <<>>, created |-> TRUE, bad |-> bad]}
    ELSE {[conn |-> Head(sl), slots |-> Tail(sl), created |-> FALSE, bad |-> bad]}
             \cup PoolGet(Tail(sl), bad \cup {Head(sl)})

\* the outcomes of self.pool.get().await, none while the caller is suspended
pool_get ==
    IF Outstanding < pool_size
    THEN {o \in PoolGet(slots, unhealthy) : o.created => nextId <= MaxConnId}
    ELSE {}

\* dropping an Object<DgraphConnectionManager> returns it to the pool
ReturnObject(conn, sl) == IF conn = NoConn THEN sl ELSE Append(sl, conn)

Checkout(o) ==
    /\ slots' = o.slots
    /\ nextId' = IF o.created THEN nextId + 1 ELSE nextId
    /\ unhealthy' = o.bad

\* ---- the state after construction -----------------------------------------
HistInit ==
    [finalized |-> FALSE,        \* a commit() or discard() call has returned
     finAtCall |-> FALSE,        \* txn.finished when the last method was called
     inlineCommitted |-> FALSE,  \* a mutating commit_now request got its Response
     sentMutating |-> FALSE,     \* a request with mutations went out
     mismatch |-> FALSE,         \* the last reply echoed a start_ts other than the nonzero local one
     firstTs |-> 0,              \* the first nonzero start_ts of an accepted context
     mergedKeys |-> {},          \* the keys of all accepted contexts
     mergedPreds |-> {},         \* the preds of all accepted contexts
     heldConn |-> NoConn,        \* the connection new_txn put into the transaction
     returned |-> 0,             \* times the transaction's connection went back to the pool
     dropDone |-> FALSE,         \* the caller has dropped the transaction
     dropCond |-> FALSE,         \* ... while mutated, unfinished and not dropped
     coaAtDrop |-> 0,            \* CommitOrAbort RPCs sent before the drop
     failedMut |-> FALSE]        \* the last call was a request with mutations whose Query RPC failed

Init ==
    /\ pool_size \in 1..MaxPoolSize
    /\ slots = <<>>
    /\ nextId = 1
    /\ unhealthy = {}
    /\ client = NoClient
    /\ txn = TransactionDefault
    /\ life = "none"
    /\ pc = "idle"
    /\ op = "none"
    /\ cur = NoRequest
    /\ result = NoResult
    /\ wire = NoRpc
    /\ coaLog = <<>>
    /\ hist = HistInit
    /\ creq = NoClientRequest
    /\ mc = <<>>

\* ---- DgraphPool ------------------------------------------------------------
\* get_best_effort passing its two flags in the wrong order
ClientFlagsSwapped == {<<FALSE, FALSE>>, <<TRUE, FALSE>>, <<FALSE, TRUE>>}

\* get (false, false), get_readonly (true, false), get_best_effort (true, true)
ClientFlags == {<<FALSE, FALSE>>, <<TRUE, FALSE>>, <<TRUE, TRUE>>}

GetClient ==
    /\ client.conn = NoConn
    /\ \E o \in pool_get, f \in ClientFlags :
          /\ Checkout(o)
          /\ client' = ClientNew(o.conn, f[1], f[2])
    /\ wire' = NoRpc
    /\ UNCHANGED <<creq, mc, pool_size, txn, life, pc, op, cur, result, coaLog, hist>>

DropClient ==
    /\ client.conn # NoConn
    /\ creq.state # "pending"
    /\ slots' = ReturnObject(client.conn, slots)
    /\ client' = NoClient
    /\ creq' = NoClientRequest
    /\ wire' = NoRpc
    /\ UNCHANGED <<mc, pool_size, nextId, unhealthy, txn, life, pc, op, cur, result, coaLog,
                   hist>>

\* a method of the Client builds its request and sends it: Client::do_request
\* up to the await
ClientRequest ==
    /\ client.conn # NoConn
    /\ creq.state # "pending"
    /\ \E api \in ClientApis : creq' = client_request(client, api)
    /\ UNCHANGED <<pool_size, slots, nextId, unhealthy, client, txn, life, pc, op, cur,
                   result, wire, coaLog, hist, mc>>

\* the Query RPC of the Client returns and the method with it
ClientReply ==
    /\ creq.state = "pending"
    /\ \E ok \in BOOLEAN : creq' = [creq EXCEPT !.state = IF ok THEN "ok" ELSE "err"]
    /\ UNCHANGED <<pool_size, slots, nextId, unhealthy, client, txn, life, pc, op, cur,
                   result, wire, coaLog, hist, mc>>

\* pub async fn new_txn(&self) -> Result<Transaction>
new_txn ==
    /\ life = "none"
    /\ \E o \in pool_get :
          /\ Checkout(o)
          /\ txn' = TransactionNew(o.conn)
          /\ hist' = [hist EXCEPT !.heldConn = o.conn]
    /\ life' = "caller"
    /\ wire' = NoRpc
    /\ UNCHANGED <<creq, mc, pool_size, client, pc, op, cur, result, coaLog>>

\* ---- Transaction -----------------------------------------------------------
\* the end of a Transaction value: Drop::drop runs, then its fields are dropped
\* and the connection it still holds goes back to the pool
Destroyed(t) ==
    LET d == drop(t)
    IN  IF d.spawn
        THEN [life |-> "task", pc |-> "spawned", txn |-> d.this, back |-> d.self.conn]
        ELSE [life |-> "dead", pc |-> "idle", txn |-> [d.self EXCEPT !.conn = NoConn],
              back |-> d.self.conn]

Back(h, e) == [h EXCEPT !.returned = @ + (IF e.back # NoConn THEN 1 ELSE 0)]

\* a do_request-style method is called: query, query_with_vars, mutate, upsert,
\* upsert_with_vars or do_request itself
DoRequest ==
    /\ life = "caller" /\ pc = "idle"
    /\ \E req \in Requests :
          LET r == do_request_send(txn, req)
          IN  /\ txn' = r.txn
              /\ wire' = IF r.rpc THEN QueryRpc(r.sent) ELSE NoRpc
              /\ pc' = IF r.rpc THEN "query_wait" ELSE "idle"
              /\ cur' = IF r.rpc THEN req ELSE NoRequest
              /\ result' = r.res
              /\ hist' = [hist EXCEPT !.finAtCall = txn.finished,
                                      !.sentMutating = @ \/ (r.rpc /\ req.mutating),
                                      !.failedMut = FALSE]
    /\ op' = "do_request"
    /\ UNCHANGED <<creq, mc, pool_size, slots, nextId, unhealthy, client, life, coaLog>>

\* the Query RPC of the do_request in flight returns
QueryReply ==
    /\ life = "caller" /\ pc = "query_wait"
    /\ \E reply \in QueryReplies :
          LET r == do_request_reply(txn, cur, reply)
              accepted == reply.kind = "ctx" /\ r.res = Ok
          IN  /\ txn' = r.txn
              /\ result' = r.res
              /\ hist' = [hist EXCEPT
                    !.inlineCommitted =
                        @ \/ (reply.kind # "err" /\ cur.commit_now /\ cur.mutating),
                    !.mismatch = /\ reply.kind = "ctx"
                                 /\ txn.ctx.start_ts # 0
                                 /\ reply.ctx.start_ts # txn.ctx.start_ts,
                    !.firstTs = IF accepted /\ @ = 0 THEN reply.ctx.start_ts ELSE @,
                    !.mergedKeys = IF accepted THEN @ \cup reply.ctx.keys ELSE @,
                    !.mergedPreds = IF accepted THEN @ \cup reply.ctx.preds ELSE @,
                    !.failedMut = reply.kind = "err" /\ cur.mutating]
    /\ pc' = "idle"
    /\ cur' = NoRequest
    /\ wire' = NoRpc
    /\ UNCHANGED <<creq, mc, pool_size, slots, nextId, unhealthy, client, life, op, coaLog>>

\* discard() is called
Discard ==
    /\ life = "caller" /\ pc = "idle"
    /\ \E r \in discard_send(txn) :
          /\ txn' = r.txn
          /\ wire' = IF r.rpc THEN CommitOrAbortRpc(r.sent) ELSE NoRpc
          /\ coaLog' = IF r.rpc THEN Append(coaLog, r.sent) ELSE coaLog
          /\ pc' = IF r.rpc THEN "coa_wait" ELSE "idle"
          /\ result' = r.res
          /\ hist' = [hist EXCEPT !.finAtCall = txn.finished,
                                  !.finalized = @ \/ ~r.rpc,
                                  !.failedMut = FALSE]
    /\ op' = "discard"
    /\ UNCHANGED <<creq, mc, pool_size, slots, nextId, unhealthy, client, life, cur>>

\* commit() is called; it owns the transaction, which ends when commit returns
Commit ==
    /\ life = "caller" /\ pc = "idle"
    /\ \E r \in commit_send(txn) :
          /\ wire' = IF r.rpc THEN CommitOrAbortRpc(r.sent) ELSE NoRpc
          /\ coaLog' = IF r.rpc THEN Append(coaLog, r.sent) ELSE coaLog
          /\ result' = r.res
          /\ IF r.rpc
             THEN /\ txn' = r.txn
                  /\ pc' = "coa_wait"
                  /\ hist' = [hist EXCEPT !.finAtCall = txn.finished,
                                          !.failedMut = FALSE]
                  /\ UNCHANGED <<life, slots>>
             ELSE LET e == Destroyed(r.txn)
                  IN  /\ txn' = e.txn
                      /\ life' = e.life
                      /\ pc' = e.pc
                      /\ slots' = ReturnObject(e.back, slots)
                      /\ hist' = Back([hist EXCEPT !.finAtCall = txn.finished,
                                                   !.finalized = TRUE,
                                                   !.failedMut = FALSE], e)
    /\ op' = "commit"
    /\ UNCHANGED <<creq, mc, pool_size, nextId, unhealthy, client, cur>>

\* the CommitOrAbort RPC in flight returns: discard() returns to the caller,
\* commit() returns and its transaction ends, or the spawned task ends
CoaReply ==
    /\ pc = "coa_wait"
    /\ \E ok \in BOOLEAN :
          result' = IF life = "task" THEN result ELSE commit_or_abort_reply(ok)
    /\ IF life = "caller" /\ op = "discard"
       THEN /\ pc' = "idle"
            /\ hist' = [hist EXCEPT !.finalized = TRUE]
            /\ UNCHANGED <<txn, life, slots>>
       ELSE LET e == Destroyed(txn)
            IN  /\ txn' = e.txn
                /\ life' = e.life
                /\ pc' = e.pc
                /\ slots' = ReturnObject(e.back, slots)
                /\ hist' = Back([hist EXCEPT !.finalized = @ \/ life = "caller"], e)
    /\ wire' = NoRpc
    /\ UNCHANGED <<creq, mc, pool_size, nextId, unhealthy, client, op, cur, coaLog>>

\* the caller lets the transaction go out of scope
DropTxn ==
    /\ life = "caller" /\ pc = "idle"
    /\ LET e == Destroyed(txn)
       IN  /\ txn' = e.txn
           /\ life' = e.life
           /\ pc' = e.pc
           /\ slots' = ReturnObject(e.back, slots)
           /\ hist' = Back([hist EXCEPT
                               !.dropDone = TRUE,
                               !.dropCond = txn.mutated /\ ~txn.finished /\ ~txn.dropped,
                               !.coaAtDrop = Len(coaLog)], e)
    /\ op' = "drop"
    /\ wire' = NoRpc
    /\ UNCHANGED <<creq, mc, pool_size, nextId, unhealthy, client, cur, result, coaLog>>

\* the task spawned by drop runs: let _ = this.discard().await
TaskDiscard ==
    /\ life = "task" /\ pc = "spawned"
    /\ \E r \in discard_send(txn) :
          /\ wire' = IF r.rpc THEN CommitOrAbortRpc(r.sent) ELSE NoRpc
          /\ coaLog' = IF r.rpc THEN Append(coaLog, r.sent) ELSE coaLog
          /\ IF r.rpc
             THEN /\ txn' = r.txn
                  /\ pc' = "coa_wait"
                  /\ hist' = [hist EXCEPT !.finAtCall = txn.finished]
                  /\ UNCHANGED <<life, slots>>
             ELSE LET e == Destroyed(r.txn)
                  IN  /\ txn' = e.txn
                      /\ life' = e.life
                      /\ pc' = e.pc
                      /\ slots' = ReturnObject(e.back, slots)
                      /\ hist' = Back([hist EXCEPT !.finAtCall = txn.finished], e)
    /\ UNCHANGED <<creq, mc, pool_size, nextId, unhealthy, client, op, cur, result>>

Next ==
    \/ GetClient
    \/ DropClient
    \/ new_txn
    \/ DoRequest
    \/ QueryReply
    \/ Discard
    \/ Commit
    \/ CoaReply
    \/ DropTxn
    \/ TaskDiscard

Spec == Init /\ [][Next]_vars

\* ---- the Client and the pool on their own -----------------------------------
\* the requests of the Client touch nothing of the Transaction: they are
\* followed here, next to the pool and a transaction that is only opened and
\* dropped: it never mutates, so that its drop spawns nothing
ClientNext ==
    \/ GetClient
    \/ DropClient
    \/ ClientRequest
    \/ ClientReply
    \/ new_txn
    \/ DropTxn

ClientSpec == Init /\ [][ClientNext]_vars

\* ---- merge_context on its own ------------------------------------------------
MaxMerges == 2

\* a fresh transaction, as new_txn hands it out
MergeInit ==
    /\ pool_size = 1
    /\ slots = <<>>
    /\ nextId = 2
    /\ unhealthy = {}
    /\ client = NoClient
    /\ txn = TransactionNew(1)
    /\ life = "caller"
    /\ pc = "idle"
    /\ op = "none"
    /\ cur = NoRequest
    /\ result = NoResult
    /\ wire = NoRpc
    /\ coaLog = <<>>
    /\ hist = [HistInit EXCEPT !.heldConn = 1]
    /\ creq = NoClientRequest
    /\ mc = <<>>

\* self.merge_context(ctx) with any context a Response can carry
MergeContext ==
    /\ Len(mc) < MaxMerges
    /\ \E ctx \in ResponseContexts :
          LET r == merge_context(txn, ctx)
          IN  /\ txn' = r.txn
              /\ result' = r.res
              /\ mc' = Append(mc, ctx)
    /\ UNCHANGED <<pool_size, slots, nextId, unhealthy, client, life, pc, op, cur, wire,
                   coaLog, hist, creq>>

MergeSpec == MergeInit /\ [][MergeContext]_vars

\* the transaction after merging the contexts of seq, in order, into t
RECURSIVE MergeAll(_, _)
MergeAll(t, seq) ==
    IF seq = <<>> THEN t ELSE MergeAll(merge_context(t, Head(seq)).txn, Tail(seq))

Reverse(seq) == [i \in 1..Len(seq) |-> seq[Len(seq) + 1 - i]]

\* ---- properties of the driver ------------------------------------------------
AlreadyFinished(r) == r.kind \notin {"Ok", "None"} /\ r.msg = "Transaction already finished"

\* C1 as stated: once commit() or discard() has returned, every
\* do_request-style call fails with the transaction-protocol error, sends no
\* Query RPC and leaves mutated, ctx.hash, ctx.start_ts, keys and preds as they
\* were.
C1_FinishedRejectsWithTransactionError ==
    [][(DoRequest /\ hist.finalized) =>
          /\ result' = TransactionError("Transaction already finished")
          /\ pc' = "idle"
          /\ wire' = NoRpc
          /\ txn'.mutated = txn.mutated
          /\ txn'.ctx.hash = txn.ctx.hash
          /\ txn'.ctx.start_ts = txn.ctx.start_ts
          /\ txn'.keys = txn.keys
          /\ txn'.preds = txn.preds]_vars

\* C1 but for the kind of the error: once commit() or discard() has returned,
\* every do_request-style call fails with the "Transaction already finished"
\* error, sends no Query RPC and leaves mutated, ctx.hash, ctx.start_ts, keys
\* and preds as they were.
C1_FinishedRejectsRequests ==
    [][(DoRequest /\ hist.finalized) =>
          /\ AlreadyFinished(result')
          /\ pc' = "idle"
          /\ wire' = NoRpc
          /\ txn'.mutated = txn.mutated
          /\ txn'.ctx.hash = txn.ctx.hash
          /\ txn'.ctx.start_ts = txn.ctx.start_ts
          /\ txn'.keys = txn.keys
          /\ txn'.preds = txn.preds]_vars

\* a do_request was refused on a caller-held transaction that discard() finished
C1_Witness ==
    /\ life = "caller" /\ hist.finalized /\ txn.mutated
    /\ op = "do_request" /\ pc = "idle" /\ AlreadyFinished(result)

\* C2: dropping a transaction that is mutated, unfinished and not dropped
\* returns with no CommitOrAbort RPC sent yet and the abort left to the
\* spawned task, which sends exactly one CommitOrAbort RPC, with aborted =
\* true; dropping a never-mutated or finished transaction sends no RPC at all.
C2_DropAbortsOnceInBackground ==
    hist.dropDone =>
        IF hist.dropCond
        THEN /\ life \in {"task", "dead"}
             /\ (life = "task" /\ pc = "spawned") => (coaLog = <<>> /\ wire = NoRpc)
             /\ ~(life = "task" /\ pc = "spawned") =>
                    (Len(coaLog) = 1 /\ coaLog[1].aborted)
        ELSE /\ life = "dead"
             /\ Len(coaLog) = hist.coaAtDrop
             /\ wire = NoRpc

\* the spawned task has sent its abort and ended
C2_Witness == hist.dropDone /\ hist.dropCond /\ life = "dead" /\ Len(coaLog) = 1

\* C3: over the whole life of a transaction, the spawned task and the end of
\* the moved state included, at most one CommitOrAbort RPC is sent.
C3_AtMostOneFinalizeRpc == Len(coaLog) <= 1

\* discard() sent the RPC and the caller dropped the transaction afterwards
C3_Witness ==
    /\ hist.dropDone /\ hist.coaAtDrop = 1 /\ life = "dead" /\ Len(coaLog) = 1

\* C4 as stated: ctx.start_ts changes only from 0 to a nonzero value and never
\* again, discard(), commit() and the finalize routine included.
C4_StartTsSetOnce ==
    [][txn'.ctx.start_ts # txn.ctx.start_ts =>
          (txn.ctx.start_ts = 0 /\ txn'.ctx.start_ts # 0)]_vars

\* C4 amended: ctx.start_ts changes from 0 to a nonzero value, and from then on
\* only in the step of the finalize routine that moves the context into the
\* CommitOrAbort RPC: the RPC carries the assigned value and ctx.start_ts is
\* left at 0 on the finished transaction.
C4_StartTsSetOnceUntilFinalize ==
    [][txn'.ctx.start_ts # txn.ctx.start_ts =>
          \/ txn.ctx.start_ts = 0 /\ txn'.ctx.start_ts # 0
          \/ /\ ~txn.finished /\ txn'.finished
             /\ wire'.rpc = "CommitOrAbort"
             /\ wire'.ctx.start_ts = txn.ctx.start_ts
             /\ txn'.ctx.start_ts = 0]_vars

\* a differing echo was refused and the assigned start_ts is still in place
C4_Witness ==
    /\ hist.mismatch /\ hist.firstTs # 0 /\ txn.ctx.start_ts = hist.firstTs
    /\ ~txn.finished

\* C5: when the local start_ts is nonzero and the reply echoes another one,
\* do_request fails, start_ts stays and no key or pred of the reply is added.
C5_MismatchRejected ==
    [][(pc = "query_wait" /\ pc' = "idle" /\ hist'.mismatch) =>
          /\ result'.kind \notin {"Ok", "None"}
          /\ txn'.ctx.start_ts = txn.ctx.start_ts
          /\ txn'.keys = txn.keys
          /\ txn'.preds = txn.preds]_vars

\* start_ts 1 was assigned and a later reply echoing another value failed
C5_Witness ==
    /\ hist.mismatch /\ pc = "idle" /\ op = "do_request"
    /\ result = InvalidArgument("Transaction start_ts mismatch")
    /\ txn.ctx.start_ts = 1

\* C6: the CommitOrAbort RPC of commit() or discard() carries the start_ts the
\* server assigned first and, as keys and preds, exactly the union of the keys
\* and preds of all accepted contexts, each once; aborted is false for
\* commit() and true for discard().
C6_FinalizeCarriesContext ==
    (wire.rpc = "CommitOrAbort" /\ op \in {"commit", "discard"}) =>
        /\ wire.ctx.start_ts = hist.firstTs
        /\ SeqToSet(wire.ctx.keys) = hist.mergedKeys
        /\ Len(wire.ctx.keys) = Cardinality(hist.mergedKeys)
        /\ SeqToSet(wire.ctx.preds) = hist.mergedPreds
        /\ Len(wire.ctx.preds) = Cardinality(hist.mergedPreds)
        /\ wire.ctx.aborted = (op = "discard")

\* commit() sends start_ts 2 with the keys a and b
C6_Witness ==
    /\ wire.rpc = "CommitOrAbort" /\ op = "commit"
    /\ wire.ctx.start_ts = 2 /\ wire.ctx.keys = <<"a", "b">>
    /\ ~wire.ctx.aborted

\* C7: on a transaction that never sent a request with mutations, no
\* CommitOrAbort RPC is ever sent, discard() returns Ok, commit() on the
\* unfinished transaction returns Ok, and both leave it finished.
C7_ReadOnlyFinalizeIsLocal ==
    ~hist.sentMutating =>
        /\ coaLog = <<>>
        /\ (op = "discard" /\ pc = "idle") => (result = Ok /\ txn.finished)
        /\ (op = "commit" /\ ~hist.finAtCall) =>
               (result = Ok /\ txn.finished /\ life = "dead")

\* a transaction that only queried was committed
C7_Witness ==
    /\ ~hist.sentMutating /\ hist.firstTs # 0
    /\ op = "commit" /\ result = Ok /\ life = "dead"

\* C8: once a mutating commit_now request has got its Response the transaction
\* is finished; a later do_request-style call or commit() fails, and neither
\* discard() nor the drop sends a CommitOrAbort RPC.
C8_InlineCommitFinishes ==
    hist.inlineCommitted =>
        /\ txn.finished
        /\ coaLog = <<>>
        /\ life # "task"
        /\ (op \in {"do_request", "commit"} /\ pc = "idle" /\ hist.finAtCall) =>
               AlreadyFinished(result)
        /\ (op = "discard") => (pc = "idle" /\ result = Ok)

\* the inline-committed transaction was dropped
C8_Witness == hist.inlineCommitted /\ hist.dropDone /\ life = "dead"

\* C9 as stated: the transaction holds its connection exclusively and the
\* connection is back in the pool once commit() or discard() has returned or
\* the drop-spawned abort has ended.
C9_ReturnedAtFinalize ==
    /\ life \in {"caller", "task"} =>
           /\ txn.conn # NoConn /\ txn.conn = hist.heldConn
           /\ txn.conn \notin SeqToSet(slots) /\ txn.conn # client.conn
    /\ (hist.finalized \/ (hist.dropCond /\ life = "dead")) =>
           (hist.returned = 1 /\ txn.conn = NoConn)

\* C9 amended: the transaction holds one connection exclusively and the
\* connection goes back to the pool exactly once, when the Transaction value
\* ends: on return from commit(), at the end of the drop-spawned abort task,
\* or when the caller drops the transaction; after discard() the transaction
\* keeps the connection until it is dropped.
C9_ReturnedAtDestruction ==
    /\ life \in {"caller", "task"} =>
           /\ txn.conn # NoConn /\ txn.conn = hist.heldConn
           /\ txn.conn \notin SeqToSet(slots) /\ txn.conn # client.conn
           /\ hist.returned = 0
    /\ life = "dead" => (hist.returned = 1 /\ txn.conn = NoConn)

\* the connection of the ended transaction is in the hands of a Client
C9_Witness ==
    /\ life = "dead" /\ hist.returned = 1 /\ hist.finalized
    /\ client.conn = hist.heldConn

\* C10: no step taken on a transaction whose finished flag is true sends an RPC.
C10_NoRpcOnceFinished == [][txn.finished => wire' = NoRpc]_vars

\* discard() was called on a transaction that had sent its CommitOrAbort RPC
C10_Witness ==
    /\ txn.finished /\ Len(coaLog) = 1 /\ hist.finAtCall
    /\ op = "discard" /\ pc = "idle" /\ wire = NoRpc

\* C11 as stated: across every step of the transaction, the finalize routine
\* included, keys and preds after the step contain keys and preds before it.
C11_SetsNeverShrink ==
    [][txn.keys \subseteq txn'.keys /\ txn.preds \subseteq txn'.preds]_vars

\* C11 amended: keys and preds only grow while the transaction is unfinished;
\* the one step that shrinks them is the finalize routine of a mutated
\* transaction, which drains both sets into the context of the CommitOrAbort
\* RPC and leaves them empty.
C11_SetsGrowUntilDrained ==
    [][\/ txn.keys \subseteq txn'.keys /\ txn.preds \subseteq txn'.preds
       \/ /\ ~txn.finished /\ txn'.finished
          /\ wire'.rpc = "CommitOrAbort"
          /\ SeqToSet(wire'.ctx.keys) = txn.keys
          /\ SeqToSet(wire'.ctx.preds) = txn.preds
          /\ txn'.keys = {} /\ txn'.preds = {}]_vars

\* two replies have filled the sets of an unfinished transaction
C11_Witness ==
    /\ ~txn.finished /\ life = "caller" /\ pc = "idle"
    /\ txn.keys = {"a", "b"} /\ txn.preds = {"p"}
    /\ hist.mergedKeys = txn.keys

\* C12: merging the context that was merged last a second time leaves keys
\* and preds as they were after the first merge, and merging contexts of one
\* start_ts in the opposite order gives the same keys and preds.
C12_MergeIdempotentCommutative ==
    LET n == Len(mc)
        before == MergeAll(TransactionNew(1), SubSeq(mc, 1, n - 1))
        swapped == MergeAll(TransactionNew(1), Reverse(mc))
    IN  /\ (n >= 2 /\ mc[n] = mc[n - 1]) =>
               (txn.keys = before.keys /\ txn.preds = before.preds)
        /\ (n >= 2 /\ \A i \in 1..n : mc[i].start_ts = mc[1].start_ts) =>
               (txn.keys = swapped.keys /\ txn.preds = swapped.preds)

\* keys a then keys b, both of start_ts 1, were merged
C12_Witness ==
    /\ Len(mc) = 2 /\ mc[1].start_ts = 1 /\ mc[2].start_ts = 1
    /\ mc[1].keys = {"a"} /\ mc[2].keys = {"b"}
    /\ txn.keys = {"a", "b"} /\ result = Ok

C14_NewTxnWhileClientHeld ==
    (pool_size = 1 /\ client.conn # NoConn /\ life = "none") => ENABLED new_txn

\* C15 as stated: every request a Client sends has commit_now = true and the
\* read_only and best_effort flags of the Client.
C15_RequestsCarryClientFlags ==
    creq.api # "none" =>
        /\ creq.commit_now
        /\ creq.read_only = client.read_only
        /\ creq.best_effort = client.best_effort

\* C16: no Client has best_effort = true with read_only = false, and every
\* query or query_with_vars of a best-effort Client carries read_only = true.
C16_BestEffortIsReadOnly ==
    /\ client.best_effort => client.read_only
    /\ (client.best_effort /\ creq.api \in {"query", "query_with_vars"}) =>
           (creq.read_only /\ creq.best_effort)

\* a best-effort Client has sent a query
C16_Witness == client.best_effort /\ creq.api = "query" /\ creq.state = "pending"

\* C17 as stated: discard() on a finished transaction returns success, issues
\* no RPC and leaves the state of the transaction as it was.
C17_DiscardFinishedNoOp ==
    [][(Discard /\ txn.finished) =>
           (result' = Ok /\ wire' = NoRpc /\ coaLog' = coaLog /\ txn' = txn)]_vars

\* C17 amended: discard() on a finished transaction returns success and issues
\* no RPC; it sets ctx.aborted and leaves every other field of the
\* transaction as it was.
C17_DiscardFinishedSetsAborted ==
    [][(Discard /\ txn.finished) =>
           /\ result' = Ok /\ wire' = NoRpc /\ coaLog' = coaLog
           /\ pc' = "idle"
           /\ txn' = [txn EXCEPT !.ctx.aborted = TRUE]]_vars

\* discard() has returned from a transaction that an inline commit_now request
\* had finished
C17_Witness ==
    /\ life = "caller" /\ op = "discard" /\ pc = "idle"
    /\ hist.finAtCall /\ hist.inlineCommitted
    /\ txn.finished /\ txn.ctx.aborted /\ result = Ok /\ coaLog = <<>>

\* C18 as stated: finished is set only after the CommitOrAbort RPC has been
\* issued and has returned successfully: finished is false while the RPC is in
\* flight and after it has failed.
C18_FinishedAfterRpcSuccess ==
    /\ pc = "coa_wait" => ~txn.finished
    /\ (life = "caller" /\ op = "discard" /\ pc = "idle" /\ result.kind = "Status")
           => ~txn.finished

\* C18 amended: finished is set first, then the sets are flushed into the
\* context, then the one CommitOrAbort RPC is issued: while the RPC is in
\* flight finished is true, the sets are empty and the RPC carries what they
\* held, and finished stays true when the RPC fails.
C18_FinishedBeforeRpc ==
    /\ pc = "coa_wait" =>
           /\ txn.finished /\ txn.mutated
           /\ txn.keys = {} /\ txn.preds = {}
           /\ Len(coaLog) = 1
           /\ SeqToSet(coaLog[1].keys) = hist.mergedKeys
           /\ SeqToSet(coaLog[1].preds) = hist.mergedPreds
    /\ (life = "caller" /\ op = "discard" /\ pc = "idle" /\ result.kind = "Status")
           => (txn.finished /\ Len(coaLog) = 1)

\* discard() has returned the failure of its CommitOrAbort RPC, which carried
\* two keys
C18_Witness ==
    /\ life = "caller" /\ op = "discard" /\ pc = "idle"
    /\ result = Status("commit_or_abort")
    /\ txn.finished /\ Len(coaLog) = 1 /\ Len(coaLog[1].keys) = 2

\* C19: when the Query RPC of a request with mutations fails, the transaction
\* is left mutated and unfinished; dropping it then spawns the background
\* abort, which issues one CommitOrAbort RPC with aborted = true.
C19_FailedMutationAbortedOnDrop ==
    hist.failedMut =>
        /\ txn.mutated
        /\ life = "caller" => (~txn.finished /\ result = Status("query") /\ coaLog = <<>>)
        /\ hist.dropDone => (hist.dropCond /\ life \in {"task", "dead"})
        /\ (pc = "coa_wait" \/ life = "dead") =>
               (Len(coaLog) = 1 /\ coaLog[1].aborted /\ hist.coaAtDrop = 0)

\* the transaction was dropped after its mutation failed, and the background
\* abort has ended
C19_Witness ==
    /\ hist.failedMut /\ hist.dropDone /\ life = "dead"
    /\ Len(coaLog) = 1 /\ coaLog[1].aborted

\* C20: the reuse of a finished transaction (do_request or commit()) and a
\* start_ts mismatch on merge are reported with the Transaction error kind,
\* not with InvalidArgument.
C20_ProtocolErrorsAreTransactionKind ==
    result.msg \in {"Transaction already finished", "Transaction start_ts mismatch"}
        => result = TransactionError(result.msg)

====
